---- MODULE Spec2Model ----
(***************************************************************************)
(* Token-aware conversation memory of the deepthinks backend.              *)
(*                                                                         *)
(* The model follows flask_project/memory.py (TokenAwareMemoryManager and  *)
(* Summarizer, snapshot 20250829214430) and the chat route that drives it  *)
(* (routes/chat.py, snapshot 20250829214650): request workers serve chat   *)
(* requests of ONE (user_id, session_number); each request constructs a    *)
(* fresh manager from the conversation_memory row, streams a model answer, *)
(* and, when the stream completed, calls add_interaction and save_to_db.   *)
(***************************************************************************)
EXTENDS Integers, Sequences, FiniteSets, TLC

VARIABLES
    config,               \* current_app.config values read by __init__
    conversation_memory,  \* the persisted row of the session (or no row)
    chat_history,         \* the permanent transcript, rows in insertion order
    clock,                \* datetime.now(timezone.utc), as a logical clock
    pc,                   \* position of each request worker in chat()
    memory,               \* the TokenAwareMemoryManager instance of each worker
    last,                 \* what the worker's last add_interaction call did
    context_messages,     \* what the worker's get_context call returned
    memory_stats,         \* what the worker's get_memory_stats call returned
    token_estimate,       \* the last count_tokens call: arguments and outcome
    unauthorized_request_counts,  \* request_count of the anonymous session's row
    request_count,        \* the count each worker read for the limit check
    limit_log             \* how many requests of the session were begun,
                          \* passed the limit check and were answered 429

vars == <<config, conversation_memory, chat_history, clock, pc, memory, last,
          context_messages, memory_stats, token_estimate,
          unauthorized_request_counts, request_count, limit_log>>

\* the variables of the anonymous rate limit
rate_limit_vars == <<unauthorized_request_counts, request_count, limit_log>>

----------------------------------------------------------------------------
(* Bounds of the model *)

\* add_interaction calls made by all requests together
MaxAdds == 2

\* interactions a row written before token tracking may hold
MaxLegacy == 2

\* add_interaction calls made on a session that starts empty
MaxSessionAdds == 3

\* characters of the longest text handed to count_tokens, and tokens of the
\* longest encoding
MaxTextLen == 9

\* chat requests an anonymous session makes
MaxRequests == 4

(* Program constants *)

\* SMOOTHING_FACTOR = 0.8 and SAFETY_MARGIN = 0.9, as exact fractions
SmoothingNum == 4
SmoothingDen == 5
SafetyNum == 9
SafetyDen == 10

\* requests an unauthenticated session may make (request_count >= 2)
AnonymousLimit == 2

\* the request workers that may serve the session at the same time
Requests == {"r1", "r2"}

\* MAX_CONTEXT_TOKENS, MIN_INTERACTIONS_BEFORE_SUMMARY, MAX_INTERACTIONS_LIMIT
\* as the deployment supplies them (defaults 3000, 2, 50): a budget of 90
\* tokens with the default counts, a budget of 36 with a cap of 3
\* interactions, and the smallest counts possible
Configs ==
    { [tok_K |-> 100, min_interactions |-> 2, max_interactions |-> 50],
      [tok_K |-> 40, min_interactions |-> 2, max_interactions |-> 3],
      [tok_K |-> 100, min_interactions |-> 1, max_interactions |-> 1] }

\* output token counts of the answers given to a session that starts empty
TokenCosts == {1, 19, 40}

----------------------------------------------------------------------------
(* Python helpers *)

Max(a, b) == IF a >= b THEN a ELSE b
Min(a, b) == IF a <= b THEN a ELSE b

RECURSIVE Pow(_, _)
Pow(b, e) == IF e = 0 THEN 1 ELSE b * Pow(b, e - 1)

RECURSIVE SumSeq(_)
SumSeq(s) == IF s = <<>> THEN 0 ELSE Head(s) + SumSeq(Tail(s))

\* a Python index i of a sequence of length n, clamped as slicing clamps it
PyIndex(i, n) == IF i < 0 THEN Max(n + i, 0) ELSE Min(i, n)

\* s[:stop]
SliceTo(s, stop) == SubSeq(s, 1, PyIndex(stop, Len(s)))

\* s[start:]
SliceFrom(s, start) == SubSeq(s, PyIndex(start, Len(s)) + 1, Len(s))

\* dict.get(key, default)
DictGet(d, key, default) == IF key \in DOMAIN d THEN d[key] ELSE default

----------------------------------------------------------------------------
(* Values *)

\* summary_json: NULL, or a text. A text is told apart by what json.loads
\* makes of it and by the last interaction (timestamp) it was produced from:
\*   "summary"     an object that follows CONVERSATION_SUMMARY_SCHEMA
\*   "json"        an object that does not: its important_details are not
\*                 strings
\*   "not_object"  JSON that is no object (a list, a number, null, a string)
NullSummary == [kind |-> "null", upto |-> 0]

\* bool(summary_json)
Truthy(summary_json) == summary_json.kind /= "null"

\* the history_buffer column: NULL, or the text json.dumps wrote
NullText == [is_null |-> TRUE, items |-> <<>>]
JsonDumps(buffer) == [is_null |-> FALSE, items |-> buffer]
JsonLoads(text) == text.items

NoRow == [present |-> FALSE, summary_json |-> NullSummary, history_buffer |-> NullText]

EmptyManager == [summary_json |-> NullSummary, history_buffer |-> <<>>, token_buffer |-> <<>>]

\* the outcomes of the LLM call inside Summarizer.summarize
LLMOutcomes == {"ok", "no_schema", "not_object", "unparsable", "raise"}

\* an interaction as add_interaction builds it
Interaction(prompt, response, timestamp, token_count) ==
    [prompt |-> prompt, response |-> response, timestamp |-> timestamp,
     token_count |-> token_count]

\* an interaction as the manager without token tracking stored it
LegacyInteraction(prompt, response, timestamp) ==
    [prompt |-> prompt, response |-> response, timestamp |-> timestamp]

----------------------------------------------------------------------------
(* TokenAwareMemoryManager *)

\* the comparison with the threshold turned around
ReachesThreshold_Reversed(token_sum, cfg) ==
    token_sum * SafetyDen <= cfg.tok_K * SafetyNum

\* sum(token_buffer) >= tok_K * safety_margin, over the integers
ReachesThreshold(token_sum, cfg) ==
    token_sum * SafetyDen >= cfg.tok_K * SafetyNum

\* smoothing_factor ** (n - 1 - i), scaled by SmoothingDen ** (n - 1);
\* i counts from 0 (oldest)
Weight(n, i) == Pow(SmoothingNum, n - 1 - i) * Pow(SmoothingDen, i)

RECURSIVE WeightedSum(_, _)
WeightedSum(token_buffer, i) ==
    IF i > Len(token_buffer) THEN 0
    ELSE token_buffer[i] * Weight(Len(token_buffer), i - 1)
         + WeightedSum(token_buffer, i + 1)

RECURSIVE WeightSum(_, _)
WeightSum(n, i) == IF i >= n THEN 0 ELSE Weight(n, i) + WeightSum(n, i + 1)

\* avg_tokens as the fraction num / den
AvgTokens(token_buffer) ==
    IF Len(token_buffer) = 1
    THEN [num |-> token_buffer[1], den |-> 1]
    ELSE [num |-> WeightedSum(token_buffer, 1),
          den |-> WeightSum(Len(token_buffer), 0)]

\* avg_tokens and adaptive_threshold / avg_tokens are doubles. Over the
\* token counts and the tok_K of this model, buffers of up to 8 entries, the
\* truncated double quotient is the exact one except for the pairs
\* (tok_K, token_buffer) below: there the exact quotient is a whole number
\* and the double avg_tokens comes out one unit in the last place above its
\* exact value (9.000000000000002 for [19, 1]), so the double quotient falls
\* just below the whole number and int() gives one less.
DoubleBelowWhole ==
    { <<100, <<19, 1>>>>,
      <<100, <<19, 1, 19, 1>>>>,
      <<100, <<19, 1, 19, 1, 19, 1>>>>,
      <<100, <<0, 1, 1, 0, 1, 1>>>>,
      <<40, <<19, 1>>>>,
      <<40, <<19, 1, 19, 1>>>>,
      <<40, <<19, 1, 19, 1, 19, 1>>>>,
      <<40, <<1, 0, 1, 0>>>>,
      <<40, <<1, 1, 0, 1, 1, 0>>>> }

\* the quotient rounded up instead of truncated
IntQuotient_RoundUp(token_buffer, cfg, avg) ==
    (cfg.tok_K * SafetyNum * avg.den + SafetyDen * avg.num - 1)
        \div (SafetyDen * avg.num)

\* int(self.adaptive_threshold / avg_tokens), avg_tokens being avg.num / avg.den
IntQuotient(token_buffer, cfg, avg) ==
    (cfg.tok_K * SafetyNum * avg.den) \div (SafetyDen * avg.num)
    - (IF <<cfg.tok_K, token_buffer>> \in DoubleBelowWhole THEN 1 ELSE 0)

\* _calculate_dynamic_threshold: the dynamic_k it returns, or the
\* ZeroDivisionError of adaptive_threshold / avg_tokens
CalculateDynamicThreshold(token_buffer, cfg) ==
    IF token_buffer = <<>>
    THEN [raised |-> FALSE, value |-> cfg.min_interactions]
    ELSE LET avg == AvgTokens(token_buffer) IN
         IF avg.num = 0
         THEN [raised |-> TRUE, value |-> 0]
         ELSE LET optimal_k == Max(1, IntQuotient(token_buffer, cfg, avg))
              IN [raised |-> FALSE,
                  value |-> Max(cfg.min_interactions,
                                Min(cfg.max_interactions, optimal_k))]

\* _should_trigger_summarization without its minimum-length check
ShouldTriggerSummarization_NoMinCheck(m, cfg) ==
    IF ReachesThreshold(SumSeq(m.token_buffer), cfg) THEN TRUE
    ELSE IF Len(m.history_buffer) >= cfg.max_interactions THEN TRUE
    ELSE FALSE

\* _should_trigger_summarization with the safety net one interaction late
ShouldTriggerSummarization_CapOffByOne(m, cfg) ==
    IF Len(m.history_buffer) < cfg.min_interactions THEN FALSE
    ELSE IF ReachesThreshold(SumSeq(m.token_buffer), cfg) THEN TRUE
    ELSE IF Len(m.history_buffer) > cfg.max_interactions THEN TRUE
    ELSE FALSE

\* _should_trigger_summarization without the max_interactions safety net
ShouldTriggerSummarization_NoCap(m, cfg) ==
    IF Len(m.history_buffer) < cfg.min_interactions THEN FALSE
    ELSE IF ReachesThreshold(SumSeq(m.token_buffer), cfg) THEN TRUE
    ELSE FALSE

\* _should_trigger_summarization
ShouldTriggerSummarization(m, cfg) ==
    IF Len(m.history_buffer) < cfg.min_interactions THEN FALSE
    ELSE IF ReachesThreshold(SumSeq(m.token_buffer), cfg) THEN TRUE
    ELSE IF Len(m.history_buffer) >= cfg.max_interactions THEN TRUE
    ELSE FALSE

\* Summarizer.summarize building formatted_log from the previous summary:
\* json.loads of text that is no JSON object gives a value without .get, and
\* the AttributeError is not among the exceptions caught there
SummarizeRaises(previous_summary_json, conversation_log) ==
    /\ conversation_log /= <<>>
    /\ previous_summary_json.kind = "not_object"

\* Summarizer.summarize: the text it returns
Summarize(previous_summary_json, conversation_log, llm) ==
    IF conversation_log = <<>> THEN previous_summary_json
    ELSE IF llm = "ok"
         THEN [kind |-> "summary",
               upto |-> conversation_log[Len(conversation_log)].timestamp]
    ELSE IF llm = "no_schema"
         THEN [kind |-> "json",
               upto |-> conversation_log[Len(conversation_log)].timestamp]
    ELSE IF llm = "not_object"
         THEN [kind |-> "not_object",
               upto |-> conversation_log[Len(conversation_log)].timestamp]
    ELSE previous_summary_json

\* a split_point that hands the whole buffer to the summarizer
SplitPoint_Whole(n) == n

\* split_point without the max(1, ...)
SplitPoint_NoFloor(n) == n \div 2

\* split_point of the older-half branch of _adaptive_prune
SplitPoint(n) == Max(1, n \div 2)

\* the split with a standard branch that summarizes [:-dynamic_k] but keeps
\* only [-dynamic_k + 1:]
PruneSplit_OffByOne(m, dynamic_k) ==
    IF Len(m.history_buffer) <= dynamic_k
    THEN [to_summarize |-> SliceTo(m.history_buffer, SplitPoint(Len(m.history_buffer))),
          to_summarize_tokens |-> SliceTo(m.token_buffer, SplitPoint(Len(m.history_buffer))),
          retained |-> SliceFrom(m.history_buffer, SplitPoint(Len(m.history_buffer))),
          retained_tokens |-> SliceFrom(m.token_buffer, SplitPoint(Len(m.history_buffer)))]
    ELSE [to_summarize |-> SliceTo(m.history_buffer, -dynamic_k),
          to_summarize_tokens |-> SliceTo(m.token_buffer, -dynamic_k),
          retained |-> SliceFrom(m.history_buffer, 1 - dynamic_k),
          retained_tokens |-> SliceFrom(m.token_buffer, 1 - dynamic_k)]

\* the split with the older-half branch taken only below dynamic_k
PruneSplit_StrictBranch(m, dynamic_k) ==
    IF Len(m.history_buffer) < dynamic_k
    THEN [to_summarize |-> SliceTo(m.history_buffer, SplitPoint(Len(m.history_buffer))),
          to_summarize_tokens |-> SliceTo(m.token_buffer, SplitPoint(Len(m.history_buffer))),
          retained |-> SliceFrom(m.history_buffer, SplitPoint(Len(m.history_buffer))),
          retained_tokens |-> SliceFrom(m.token_buffer, SplitPoint(Len(m.history_buffer)))]
    ELSE [to_summarize |-> SliceTo(m.history_buffer, -dynamic_k),
          to_summarize_tokens |-> SliceTo(m.token_buffer, -dynamic_k),
          retained |-> SliceFrom(m.history_buffer, -dynamic_k),
          retained_tokens |-> SliceFrom(m.token_buffer, -dynamic_k)]

\* the split of _adaptive_prune for a given dynamic_k
PruneSplit(m, dynamic_k) ==
    IF Len(m.history_buffer) <= dynamic_k
    THEN [to_summarize |-> SliceTo(m.history_buffer, SplitPoint(Len(m.history_buffer))),
          to_summarize_tokens |-> SliceTo(m.token_buffer, SplitPoint(Len(m.history_buffer))),
          retained |-> SliceFrom(m.history_buffer, SplitPoint(Len(m.history_buffer))),
          retained_tokens |-> SliceFrom(m.token_buffer, SplitPoint(Len(m.history_buffer)))]
    ELSE [to_summarize |-> SliceTo(m.history_buffer, -dynamic_k),
          to_summarize_tokens |-> SliceTo(m.token_buffer, -dynamic_k),
          retained |-> SliceFrom(m.history_buffer, -dynamic_k),
          retained_tokens |-> SliceFrom(m.token_buffer, -dynamic_k)]

NoSplit == [to_summarize |-> <<>>, to_summarize_tokens |-> <<>>,
            retained |-> <<>>, retained_tokens |-> <<>>]

\* an install that keeps the summarized part of the split in the buffers
InstallSummary_KeepOldest(m, new_summary, split) ==
    IF Truthy(new_summary)
    THEN [summary_json |-> new_summary,
          history_buffer |-> split.to_summarize,
          token_buffer |-> split.to_summarize_tokens]
    ELSE m

\* an install that takes a summary equal to the previous one for a failure
\* and clears it
InstallSummary_ClearsOnFailure(m, new_summary, split) ==
    IF Truthy(new_summary) /\ new_summary /= m.summary_json
    THEN [summary_json |-> new_summary,
          history_buffer |-> split.retained,
          token_buffer |-> split.retained_tokens]
    ELSE [m EXCEPT !.summary_json = NullSummary]

\* what the manager holds after `if new_summary:` of _adaptive_prune
InstallSummary(m, new_summary, split) ==
    IF Truthy(new_summary)
    THEN [summary_json |-> new_summary,
          history_buffer |-> split.retained,
          token_buffer |-> split.retained_tokens]
    ELSE m

\* _adaptive_prune: the manager afterwards and what the call did
AdaptivePrune(m, cfg, llm) ==
    LET k == CalculateDynamicThreshold(m.token_buffer, cfg) IN
    IF k.raised
    THEN [raised |-> TRUE, memory |-> m, dynamic_k |-> 0, split |-> NoSplit,
          summarized |-> FALSE]
    ELSE LET split == PruneSplit(m, k.value)
             new_summary == Summarize(m.summary_json, split.to_summarize, llm)
         IN IF SummarizeRaises(m.summary_json, split.to_summarize)
            THEN [raised |-> TRUE, memory |-> m, dynamic_k |-> k.value,
                  split |-> split, summarized |-> FALSE]
            ELSE [raised |-> FALSE,
                  memory |-> InstallSummary(m, new_summary, split),
                  dynamic_k |-> k.value,
                  split |-> split,
                  summarized |-> TRUE]

\* the buffers of add_interaction after its two appends
AppendInteraction(m, interaction) ==
    [m EXCEPT !.history_buffer = Append(@, interaction),
              !.token_buffer = Append(@, interaction.token_count)]

\* _load_from_db without the reconstruction of token_buffer
LoadFromDb_NoTokenBuffer(row) ==
    IF ~row.present THEN EmptyManager
    ELSE IF row.history_buffer.is_null
         THEN [EmptyManager EXCEPT !.summary_json = row.summary_json]
    ELSE [summary_json |-> row.summary_json,
          history_buffer |-> JsonLoads(row.history_buffer),
          token_buffer |-> <<>>]

\* _load_from_db counting one token for an entry without token_count
LoadFromDb_DefaultOne(row) ==
    IF ~row.present THEN EmptyManager
    ELSE IF row.history_buffer.is_null
         THEN [EmptyManager EXCEPT !.summary_json = row.summary_json]
    ELSE LET loaded_buffer == JsonLoads(row.history_buffer) IN
         [summary_json |-> row.summary_json,
          history_buffer |-> loaded_buffer,
          token_buffer |-> [i \in 1..Len(loaded_buffer) |->
                               DictGet(loaded_buffer[i], "token_count", 1)]]

\* _load_from_db reading history_buffer only
LoadFromDb_NoSummary(row) ==
    IF ~row.present THEN EmptyManager
    ELSE IF row.history_buffer.is_null THEN EmptyManager
    ELSE LET loaded_buffer == JsonLoads(row.history_buffer) IN
         [summary_json |-> NullSummary,
          history_buffer |-> loaded_buffer,
          token_buffer |-> [i \in 1..Len(loaded_buffer) |->
                               DictGet(loaded_buffer[i], "token_count", 0)]]

\* _load_from_db
LoadFromDb(row) ==
    IF ~row.present THEN EmptyManager
    ELSE IF row.history_buffer.is_null
         THEN [EmptyManager EXCEPT !.summary_json = row.summary_json]
    ELSE LET loaded_buffer == JsonLoads(row.history_buffer) IN
         [summary_json |-> row.summary_json,
          history_buffer |-> loaded_buffer,
          token_buffer |-> [i \in 1..Len(loaded_buffer) |->
                               DictGet(loaded_buffer[i], "token_count", 0)]]

\* an upsert that leaves summary_json out
SavedRow_NoSummary(m) ==
    [present |-> TRUE, summary_json |-> NullSummary,
     history_buffer |-> JsonDumps(m.history_buffer)]

\* the row save_to_db upserts
SavedRow(m) ==
    [present |-> TRUE, summary_json |-> m.summary_json,
     history_buffer |-> JsonDumps(m.history_buffer)]

\* a message of the context
Message(role, content) == [role |-> role, content |-> content]

\* combined_summary_text of get_context for a summary that follows the schema
SummaryText(summary_json) ==
    "Here is a summary of the conversation so far: " \o ToString(summary_json.upto)

\* the loop of get_context over history_buffer
RECURSIVE ShortTermMessages(_)
ShortTermMessages(history_buffer) ==
    IF history_buffer = <<>> THEN <<>>
    ELSE LET interaction == Head(history_buffer) IN
         (IF interaction.prompt /= ""
          THEN <<Message("user", interaction.prompt)>> ELSE <<>>)
         \o (IF interaction.response /= ""
             THEN <<Message("assistant", interaction.response)>> ELSE <<>>)
         \o ShortTermMessages(Tail(history_buffer))

\* get_context: the messages it returns, or the AttributeError of
\* summary_data.get on JSON that is no object. The TypeError of ', '.join
\* over details that are not strings is caught, and leaves no system message.
ContextMessages(m) ==
    IF ~Truthy(m.summary_json)
    THEN [raised |-> FALSE, messages |-> ShortTermMessages(m.history_buffer)]
    ELSE IF m.summary_json.kind = "not_object"
    THEN [raised |-> TRUE, messages |-> <<>>]
    ELSE IF m.summary_json.kind = "json"
    THEN [raised |-> FALSE, messages |-> ShortTermMessages(m.history_buffer)]
    ELSE [raised |-> FALSE,
          messages |-> <<Message("system", SummaryText(m.summary_json))>>
                       \o ShortTermMessages(m.history_buffer)]

\* get_memory_stats reporting min_interactions whatever the buffer holds
GetMemoryStats_StaticK(m, cfg) ==
    [reported |-> TRUE,
     raised |-> FALSE,
     current_interactions |-> Len(m.history_buffer),
     current_tokens |-> SumSeq(m.token_buffer),
     has_summary |-> Truthy(m.summary_json),
     dynamic_k |-> cfg.min_interactions]

\* get_memory_stats: the entries of the dict it returns that depend on the
\* summary and the buffers, or the exception of _calculate_dynamic_threshold
GetMemoryStats(m, cfg) ==
    LET k == IF m.token_buffer /= <<>>
             THEN CalculateDynamicThreshold(m.token_buffer, cfg)
             ELSE [raised |-> FALSE, value |-> cfg.min_interactions]
    IN [reported |-> ~k.raised,
        raised |-> k.raised,
        current_interactions |-> Len(m.history_buffer),
        current_tokens |-> SumSeq(m.token_buffer),
        has_summary |-> Truthy(m.summary_json),
        dynamic_k |-> k.value]

\* no get_memory_stats call yet
NoStats ==
    [reported |-> FALSE, raised |-> FALSE, current_interactions |-> 0,
     current_tokens |-> 0, has_summary |-> FALSE, dynamic_k |-> 0]

----------------------------------------------------------------------------
(* count_tokens *)

\* arguments of count_tokens: a str of some length, or a value of another
\* type (None, a number, a list) that is falsy (length 0) or truthy
TextArguments ==
    [is_str : {TRUE}, length : 0..MaxTextLen]
    \cup [is_str : {FALSE}, length : {0, 1}]

\* the str argument a response is
TextOf(response) == [is_str |-> TRUE, length |-> Len(response)]

\* model_name arguments: one of the keys of model_tokenizer_map, or not
ModelNames == {"meta-llama/Llama-3.3-70B-Instruct-Turbo", "unlisted"}

\* what get_tokenizer_for_model and tokenizer.encode do with a non-empty
\* str: one of them raises, or encode returns a list of at least one token
TokenizerOutcomes ==
    {[raised |-> TRUE, tokens |-> 0]}
    \cup {[raised |-> FALSE, tokens |-> n] : n \in 1..MaxTextLen}

\* count_tokens letting the tokenizer's exception through
CountTokens_Propagating(text, model_name, tokenizer) ==
    IF ~text.is_str \/ text.length = 0
    THEN [raised |-> FALSE, value |-> 0]
    ELSE IF tokenizer.raised
         THEN [raised |-> TRUE, value |-> 0]
    ELSE [raised |-> FALSE, value |-> tokenizer.tokens]

\* count_tokens
CountTokens(text, model_name, tokenizer) ==
    IF ~text.is_str \/ text.length = 0
    THEN [raised |-> FALSE, value |-> 0]
    ELSE IF tokenizer.raised
         THEN [raised |-> FALSE, value |-> Max(1, text.length \div 4)]
    ELSE [raised |-> FALSE, value |-> tokenizer.tokens]

\* no count_tokens call yet
NoEstimate ==
    [called |-> FALSE, text |-> [is_str |-> TRUE, length |-> 0],
     model_name |-> "unlisted", tokenizer |-> [raised |-> FALSE, tokens |-> 1],
     result |-> [raised |-> FALSE, value |-> 0]]

\* a call count_tokens(text, model_name)
CallCountTokens ==
    \E text \in TextArguments, model_name \in ModelNames,
       tokenizer \in TokenizerOutcomes :
        /\ token_estimate' =
             [called |-> TRUE, text |-> text, model_name |-> model_name,
              tokenizer |-> tokenizer,
              result |-> CountTokens(text, model_name, tokenizer)]
        /\ UNCHANGED <<config, conversation_memory, chat_history, clock, pc,
                     memory, last, context_messages, memory_stats,
                     rate_limit_vars>>

----------------------------------------------------------------------------
(* The chat request: chat() and generate_and_update_memory() *)

\* positions at which a worker holds no request
Resting == {"idle", "done", "disconnected", "errored", "failed"}

\* positions from which get_context has returned
Streamed == {"streaming", "completed", "reporting", "added", "saved", "done",
             "disconnected", "errored"}

\* the record of an add_interaction call that has not happened
NoCall ==
    [called |-> FALSE, logged |-> FALSE, triggered |-> FALSE,
     summarized |-> FALSE, raised |-> FALSE, llm |-> "none",
     interaction |-> Interaction("", "", 0, 0), db_response |-> "",
     before |-> EmptyManager, dynamic_k |-> 0, split |-> NoSplit]

\* the row _log_interaction_to_db inserts
TranscriptRow(prompt, response, timestamp, token_count) ==
    [prompt |-> prompt, response |-> response, timestamp |-> timestamp,
     token_count |-> token_count]

\* what a completed generation hands to add_interaction:
\* (response, response_token_count, full_response_for_history), and whether
\* the call is the one code mode makes for an answer that is not JSON.
\* Default mode passes the answer; reason mode passes the answer without its
\* <think> part, which may leave nothing (count_tokens gives 0 for ""), and
\* the whole answer for the transcript.
GenerationResults ==
    { [response |-> "a", token_count |-> 1, has_full |-> FALSE, full |-> "",
       invalid_json |-> FALSE],
      [response |-> "a", token_count |-> 40, has_full |-> TRUE, full |-> "<think>a",
       invalid_json |-> FALSE],
      [response |-> "", token_count |-> 0, has_full |-> TRUE, full |-> "<think>",
       invalid_json |-> FALSE] }

\* a db_response that is the response argument in every case
DbResponse_ResponseOnly(response, has_full, full) == response

\* db_response of add_interaction
DbResponse(response, has_full, full) == IF has_full THEN full ELSE response

\* an add_interaction that prunes again while the trigger still holds after
\* a prune
AddToMemory_PruningAgain(m, cfg, interaction, llm) ==
    LET appended == AppendInteraction(m, interaction)
        triggered == ShouldTriggerSummarization(appended, cfg)
        prune == AdaptivePrune(appended, cfg, llm)
        again == AdaptivePrune(prune.memory, cfg, llm)
    IN IF triggered
       THEN [memory |-> IF ~prune.raised
                           /\ ShouldTriggerSummarization(prune.memory, cfg)
                        THEN again.memory ELSE prune.memory,
             before |-> appended, triggered |-> TRUE,
             summarized |-> prune.summarized, raised |-> prune.raised,
             dynamic_k |-> prune.dynamic_k, split |-> prune.split]
       ELSE [memory |-> appended, before |-> appended, triggered |-> FALSE,
             summarized |-> FALSE, raised |-> FALSE,
             dynamic_k |-> 0, split |-> NoSplit]

\* add_interaction after its transcript write: the appends, the trigger and
\* the prune
AddToMemory(m, cfg, interaction, llm) ==
    LET appended == AppendInteraction(m, interaction)
        triggered == ShouldTriggerSummarization(appended, cfg)
        prune == AdaptivePrune(appended, cfg, llm)
    IN IF triggered
       THEN [memory |-> prune.memory, before |-> appended, triggered |-> TRUE,
             summarized |-> prune.summarized, raised |-> prune.raised,
             dynamic_k |-> prune.dynamic_k, split |-> prune.split]
       ELSE [memory |-> appended, before |-> appended, triggered |-> FALSE,
             summarized |-> FALSE, raised |-> FALSE,
             dynamic_k |-> 0, split |-> NoSplit]

\* memory = TokenAwareMemoryManager(user_id, session_id)
Begin(r) ==
    /\ pc[r] \in Resting
    /\ pc' = [pc EXCEPT ![r] = "loaded"]
    /\ memory' = [memory EXCEPT ![r] = LoadFromDb(conversation_memory)]
    /\ last' = [last EXCEPT ![r] = NoCall]
    /\ context_messages' = [context_messages EXCEPT ![r] = <<>>]
    /\ memory_stats' = [memory_stats EXCEPT ![r] = NoStats]
    /\ UNCHANGED <<config, conversation_memory, chat_history, clock,
                 token_estimate, rate_limit_vars>>

\* a get_context that hands out the buffer and leaves it empty
GetContext_Draining(r) ==
    /\ pc[r] = "loaded"
    /\ LET res == ContextMessages(memory[r]) IN
         /\ context_messages' = [context_messages EXCEPT ![r] = res.messages]
         /\ pc' = [pc EXCEPT ![r] = IF res.raised THEN "failed" ELSE "streaming"]
    /\ memory' = [memory EXCEPT ![r].history_buffer = <<>>,
                                ![r].token_buffer = <<>>]
    /\ UNCHANGED <<config, conversation_memory, chat_history, clock, last,
                 memory_stats, token_estimate,
                 rate_limit_vars>>

\* context_messages = memory.get_context(); an exception ends the request
\* before any streaming
GetContext(r) ==
    /\ pc[r] = "loaded"
    /\ LET res == ContextMessages(memory[r]) IN
         /\ context_messages' = [context_messages EXCEPT ![r] = res.messages]
         /\ pc' = [pc EXCEPT ![r] = IF res.raised THEN "failed" ELSE "streaming"]
    /\ UNCHANGED <<config, conversation_memory, chat_history, clock, memory, last,
                 memory_stats, token_estimate,
                 rate_limit_vars>>

\* a vision request: messages is the query with its image and get_context
\* is not called
VisionMessages(r) ==
    /\ pc[r] = "loaded"
    /\ pc' = [pc EXCEPT ![r] = "streaming"]
    /\ UNCHANGED <<config, conversation_memory, chat_history, clock, memory, last,
                 context_messages, memory_stats, token_estimate,
                 rate_limit_vars>>

\* the stream ran to its end and the answer is not blank
StreamCompleted(r) ==
    /\ pc[r] = "streaming"
    /\ pc' = [pc EXCEPT ![r] = "completed"]
    /\ UNCHANGED <<config, conversation_memory, chat_history, clock, memory, last,
                 context_messages, memory_stats, token_estimate,
                 rate_limit_vars>>

\* the stream ran to its end with a blank answer: nothing is stored
StreamBlank(r) ==
    /\ pc[r] = "streaming"
    /\ pc' = [pc EXCEPT ![r] = "done"]
    /\ UNCHANGED <<config, conversation_memory, chat_history, clock, memory, last,
                 context_messages, memory_stats, token_estimate,
                 rate_limit_vars>>

\* a disconnect handler that logs the partial answer to the transcript
ClientDisconnect_Persisting(r) ==
    /\ pc[r] = "streaming"
    /\ pc' = [pc EXCEPT ![r] = "disconnected"]
    /\ chat_history' = Append(chat_history, TranscriptRow("q", "a", clock, 1))
    /\ UNCHANGED <<config, conversation_memory, clock, memory, last,
                 context_messages, memory_stats, token_estimate,
                 rate_limit_vars>>

\* GeneratorExit while streaming
ClientDisconnect(r) ==
    /\ pc[r] = "streaming"
    /\ pc' = [pc EXCEPT ![r] = "disconnected"]
    /\ UNCHANGED <<config, conversation_memory, chat_history, clock, memory, last,
                 context_messages, memory_stats, token_estimate,
                 rate_limit_vars>>

\* any other exception while streaming
StreamError(r) ==
    /\ pc[r] = "streaming"
    /\ pc' = [pc EXCEPT ![r] = "errored"]
    /\ UNCHANGED <<config, conversation_memory, chat_history, clock, memory, last,
                 context_messages, memory_stats, token_estimate,
                 rate_limit_vars>>

\* an add_interaction that also upserts the conversation_memory row
CallAddInteraction_Flushing(r, g, llm, insert_ok) ==
    LET timestamp == clock + 1
        db_response == DbResponse(g.response, g.has_full, g.full)
        interaction == Interaction("q", g.response, timestamp, g.token_count)
        res == AddToMemory(memory[r], config, interaction, llm)
    IN /\ clock' = timestamp
       /\ chat_history' =
            IF insert_ok
            THEN Append(chat_history,
                        TranscriptRow("q", db_response, timestamp, g.token_count))
            ELSE chat_history
       /\ memory' = [memory EXCEPT ![r] = res.memory]
       /\ last' = [last EXCEPT ![r] =
            [called |-> TRUE, logged |-> insert_ok,
             triggered |-> res.triggered, summarized |-> res.summarized,
             raised |-> res.raised,
             llm |-> IF res.summarized THEN llm ELSE "none",
             interaction |-> interaction, db_response |-> db_response,
             before |-> res.before, dynamic_k |-> res.dynamic_k,
             split |-> res.split]]
       /\ pc' = [pc EXCEPT ![r] = IF res.raised THEN "failed"
                                ELSE IF g.invalid_json THEN "reporting"
                                ELSE "added"]
       /\ conversation_memory' = SavedRow(res.memory)
       /\ UNCHANGED <<config, context_messages, memory_stats, token_estimate,
                 rate_limit_vars>>

\* the call memory.add_interaction(prompt, response, response_token_count,
\* full_response_for_history) for the generation result g, with the outcome
\* of the summarizer's LLM call and of the transcript INSERT
CallAddInteraction(r, g, llm, insert_ok) ==
    LET timestamp == clock + 1
        db_response == DbResponse(g.response, g.has_full, g.full)
        interaction == Interaction("q", g.response, timestamp, g.token_count)
        res == AddToMemory(memory[r], config, interaction, llm)
    IN /\ clock' = timestamp
       /\ chat_history' =
            IF insert_ok
            THEN Append(chat_history,
                        TranscriptRow("q", db_response, timestamp, g.token_count))
            ELSE chat_history
       /\ memory' = [memory EXCEPT ![r] = res.memory]
       /\ last' = [last EXCEPT ![r] =
            [called |-> TRUE, logged |-> insert_ok,
             triggered |-> res.triggered, summarized |-> res.summarized,
             raised |-> res.raised,
             llm |-> IF res.summarized THEN llm ELSE "none",
             interaction |-> interaction, db_response |-> db_response,
             before |-> res.before, dynamic_k |-> res.dynamic_k,
             split |-> res.split]]
       /\ pc' = [pc EXCEPT ![r] = IF res.raised THEN "failed"
                                ELSE IF g.invalid_json THEN "reporting"
                                ELSE "added"]
       /\ UNCHANGED <<config, conversation_memory, context_messages, memory_stats, token_estimate,
                 rate_limit_vars>>

\* memory.add_interaction(...) in the finally block
AddInteraction(r) ==
    /\ pc[r] = "completed"
    /\ clock < MaxAdds
    /\ \E g \in GenerationResults, llm \in LLMOutcomes, insert_ok \in BOOLEAN :
         CallAddInteraction(r, g, llm, insert_ok)

\* memory.add_interaction(...) of a default-mode request whose answer costs
\* one of TokenCosts, the transcript INSERT succeeding
AddCostedInteraction(r) ==
    /\ pc[r] = "completed"
    /\ clock < MaxSessionAdds
    /\ \E cost \in TokenCosts, llm \in LLMOutcomes :
         CallAddInteraction(r, [response |-> "a", token_count |-> cost,
                                has_full |-> FALSE, full |-> "",
                                invalid_json |-> FALSE],
                            llm, TRUE)

\* memory.add_interaction(...) of a default-mode request whose answer costs
\* one of TokenCosts, the transcript INSERT and the summarizer succeeding
AddSummarizedInteraction(r) ==
    /\ pc[r] = "completed"
    /\ clock < MaxSessionAdds
    /\ \E cost \in TokenCosts :
         CallAddInteraction(r, [response |-> "a", token_count |-> cost,
                                has_full |-> FALSE, full |-> "",
                                invalid_json |-> FALSE],
                            "ok", TRUE)

\* memory.add_interaction(...) of a code-mode request: the answer as it is
\* when json.loads accepts it, and with the error note in front of it when
\* it does not; the token count is that of the answer in both cases
AddCodeInteraction(r) ==
    /\ pc[r] = "completed"
    /\ clock < MaxAdds
    /\ \E valid \in BOOLEAN, cost \in TokenCosts, llm \in LLMOutcomes :
         CallAddInteraction(r, [response |-> IF valid THEN "a"
                                             ELSE "[JSON_PARSE_ERROR] a",
                                token_count |-> cost,
                                has_full |-> FALSE, full |-> "",
                                invalid_json |-> ~valid],
                            llm, TRUE)

\* what the tokenizer does in the calls the compatibility class makes
WrapperTokenizers ==
    {t \in TokenizerOutcomes : t.raised \/ t.tokens \in {1, MaxTextLen}}

\* MemoryManager.add_interaction(prompt, response, full_response_for_history)
\* of the compatibility class in the token-aware module. Its first statement
\* is `from chat import count_tokens, current_app`, which resolves only where
\* a module named chat can be imported (app.py registers the blueprint as
\* routes.chat); otherwise the ImportError ends the call before anything is
\* written. When it resolves, the response is counted and the call is handed
\* to TokenAwareMemoryManager.add_interaction.
LegacyAddInteraction(r) ==
    /\ pc[r] = "completed"
    /\ clock < MaxAdds
    /\ \E import_ok \in BOOLEAN :
         IF import_ok
         THEN \E g \in GenerationResults, tokenizer \in WrapperTokenizers,
                 llm \in LLMOutcomes, insert_ok \in BOOLEAN :
                  CallAddInteraction(
                      r,
                      [g EXCEPT !.token_count =
                           CountTokens(TextOf(g.response),
                                       "meta-llama/Llama-3.3-70B-Instruct-Turbo",
                                       tokenizer).value],
                      llm, insert_ok)
         ELSE /\ pc' = [pc EXCEPT ![r] = "failed"]
              /\ UNCHANGED <<config, conversation_memory, chat_history, clock,
                           memory, last, context_messages, memory_stats,
                           token_estimate, rate_limit_vars>>

\* the 'Invalid JSON generated' event is delivered and the generator goes on
ReportInvalidJson(r) ==
    /\ pc[r] = "reporting"
    /\ pc' = [pc EXCEPT ![r] = "added"]
    /\ UNCHANGED <<config, conversation_memory, chat_history, clock, memory, last,
                 context_messages, memory_stats, token_estimate,
                 rate_limit_vars>>

\* the client is gone when that event is yielded: GeneratorExit is raised at
\* the yield inside the finally block and the rest of the block is skipped
DisconnectWhileReporting(r) ==
    /\ pc[r] = "reporting"
    /\ pc' = [pc EXCEPT ![r] = "disconnected"]
    /\ UNCHANGED <<config, conversation_memory, chat_history, clock, memory, last,
                 context_messages, memory_stats, token_estimate,
                 rate_limit_vars>>

\* memory.save_to_db()
SaveToDb(r) ==
    /\ pc[r] = "added"
    /\ conversation_memory' = SavedRow(memory[r])
    /\ pc' = [pc EXCEPT ![r] = "saved"]
    /\ UNCHANGED <<config, chat_history, clock, memory, last,
                 context_messages, memory_stats, token_estimate,
                 rate_limit_vars>>

\* save_to_db raises (the store is unavailable): the upsert is rolled back
SaveFails(r) ==
    /\ pc[r] = "added"
    /\ pc' = [pc EXCEPT ![r] = "failed"]
    /\ UNCHANGED <<config, conversation_memory, chat_history, clock, memory, last,
                 context_messages, memory_stats, token_estimate,
                 rate_limit_vars>>

\* memory_stats = memory.get_memory_stats() and the 'done' status
Finish(r) ==
    /\ pc[r] = "saved"
    /\ LET stats == GetMemoryStats(memory[r], config) IN
         /\ memory_stats' = [memory_stats EXCEPT ![r] = stats]
         /\ pc' = [pc EXCEPT ![r] = IF stats.raised THEN "failed" ELSE "done"]
    /\ UNCHANGED <<config, conversation_memory, chat_history, clock, memory, last,
                 context_messages, token_estimate, rate_limit_vars>>

----------------------------------------------------------------------------
(* The fixed-K manager: MemoryManager of the current memory.py, as the
   current routes/chat.py uses it *)

\* SHORT_TERM_MEMORY_K as the deployment supplies it
FixedKConfigs == {[SHORT_TERM_MEMORY_K |-> k] : k \in 1..2}

\* _load_from_db: the manager has no token_buffer, the field stays empty
FixedKLoadFromDb(row) ==
    IF ~row.present THEN EmptyManager
    ELSE [summary_json |-> row.summary_json,
          history_buffer |-> IF row.history_buffer.is_null THEN <<>>
                             ELSE JsonLoads(row.history_buffer),
          token_buffer |-> <<>>]

\* the split of prune: history_buffer[:-k] and history_buffer[-k:]
FixedKSplit(m, k) ==
    [to_summarize |-> SliceTo(m.history_buffer, -k),
     to_summarize_tokens |-> <<>>,
     retained |-> SliceFrom(m.history_buffer, -k),
     retained_tokens |-> <<>>]

\* prune: the manager afterwards and what the call did
FixedKPrune(m, k, llm) ==
    LET split == FixedKSplit(m, k)
        new_summary == Summarize(m.summary_json, split.to_summarize, llm)
    IN IF SummarizeRaises(m.summary_json, split.to_summarize)
       THEN [raised |-> TRUE, memory |-> m, split |-> split,
             summarized |-> FALSE]
       ELSE [raised |-> FALSE,
             memory |-> IF Truthy(new_summary)
                        THEN [summary_json |-> new_summary,
                              history_buffer |-> split.retained,
                              token_buffer |-> <<>>]
                        ELSE m,
             split |-> split,
             summarized |-> TRUE]

\* add_interaction after its transcript write: the append, the length check
\* and the prune
FixedKAddToMemory(m, k, interaction, llm) ==
    LET appended == [m EXCEPT !.history_buffer = Append(@, interaction)]
        prune == FixedKPrune(appended, k, llm)
    IN IF Len(appended.history_buffer) > k
       THEN [memory |-> prune.memory, before |-> appended, triggered |-> TRUE,
             summarized |-> prune.summarized, raised |-> prune.raised,
             split |-> prune.split]
       ELSE [memory |-> appended, before |-> appended, triggered |-> FALSE,
             summarized |-> FALSE, raised |-> FALSE, split |-> NoSplit]

\* memory = MemoryManager(user_id, session_id)
FixedKBegin(r) ==
    /\ pc[r] \in Resting
    /\ pc' = [pc EXCEPT ![r] = "loaded"]
    /\ memory' = [memory EXCEPT ![r] = FixedKLoadFromDb(conversation_memory)]
    /\ last' = [last EXCEPT ![r] = NoCall]
    /\ context_messages' = [context_messages EXCEPT ![r] = <<>>]
    /\ UNCHANGED <<config, conversation_memory, chat_history, clock,
                 memory_stats, token_estimate, rate_limit_vars>>

\* add_interaction with the generation result g, the outcome llm of the
\* summarizer's LLM call and the outcome of the transcript INSERT
FixedKCallAddInteraction(r, g, llm, insert_ok) ==
         LET timestamp == clock + 1
             db_response == DbResponse(g.response, g.has_full, g.full)
             interaction == LegacyInteraction("q", g.response, timestamp)
             res == FixedKAddToMemory(memory[r], config.SHORT_TERM_MEMORY_K,
                                      interaction, llm)
         IN /\ clock' = timestamp
            /\ chat_history' =
                 IF insert_ok
                 THEN Append(chat_history,
                             LegacyInteraction("q", db_response, timestamp))
                 ELSE chat_history
            /\ memory' = [memory EXCEPT ![r] = res.memory]
            /\ last' = [last EXCEPT ![r] =
                 [called |-> TRUE, logged |-> insert_ok,
                  triggered |-> res.triggered, summarized |-> res.summarized,
                  raised |-> res.raised,
                  llm |-> IF res.summarized THEN llm ELSE "none",
                  interaction |-> interaction, db_response |-> db_response,
                  before |-> res.before,
                  dynamic_k |-> config.SHORT_TERM_MEMORY_K,
                  split |-> res.split]]
            /\ pc' = [pc EXCEPT ![r] = IF res.raised THEN "failed" ELSE "added"]
            /\ UNCHANGED <<config, conversation_memory, context_messages,
                         memory_stats, token_estimate, rate_limit_vars>>

\* memory.add_interaction(memory_query, answer[, full_response_for_history])
\* in the finally block of a signed-in user's request
FixedKAddInteraction(r) ==
    /\ pc[r] = "completed"
    /\ clock < MaxAdds
    /\ \E g \in GenerationResults, llm \in LLMOutcomes, insert_ok \in BOOLEAN :
         FixedKCallAddInteraction(r, g, llm, insert_ok)

\* the 'done' status after memory.save_to_db()
FixedKDone(r) ==
    /\ pc[r] = "saved"
    /\ pc' = [pc EXCEPT ![r] = "done"]
    /\ UNCHANGED <<config, conversation_memory, chat_history, clock, memory, last,
                 context_messages, memory_stats, token_estimate,
                 rate_limit_vars>>

----------------------------------------------------------------------------
(* The anonymous rate limit of the chat route: requests without a token,
   all for one session_id *)

\* get_unauthorized_request_count: the stored count, or 0 when the SELECT
\* raises sqlite3.Error (logged and swallowed)
GetUnauthorizedRequestCount(stored, select_ok) ==
    IF select_ok THEN stored ELSE 0

\* increment_unauthorized_request_count: the upsert adds 1 in one statement;
\* a sqlite3.Error is logged and swallowed and the count stays
IncrementUnauthorizedRequestCount(stored, upsert_ok) ==
    IF upsert_ok THEN stored + 1 ELSE stored

\* the limit test of the route on the count it read
LimitReached(count) == count >= AnonymousLimit

\* a request arrives: request_count = get_unauthorized_request_count(user_id),
\* and the 429 answer when the limit is reached
AnonymousCheck(r) ==
    /\ pc[r] \in Resting \cup {"refused"}
    /\ limit_log.begun < MaxRequests
    /\ \E select_ok \in BOOLEAN :
         LET count == GetUnauthorizedRequestCount(unauthorized_request_counts,
                                                  select_ok)
         IN /\ request_count' = [request_count EXCEPT ![r] = count]
            /\ pc' = [pc EXCEPT ![r] = IF LimitReached(count) THEN "refused"
                                       ELSE "counted"]
            /\ limit_log' = [limit_log EXCEPT
                               !.begun = @ + 1,
                               !.refused = IF LimitReached(count) THEN @ + 1
                                           ELSE @]
    /\ memory' = [memory EXCEPT ![r] = EmptyManager]
    /\ last' = [last EXCEPT ![r] = NoCall]
    /\ context_messages' = [context_messages EXCEPT ![r] = <<>>]
    /\ UNCHANGED <<config, conversation_memory, chat_history, clock,
                 memory_stats, token_estimate, unauthorized_request_counts>>

\* increment_unauthorized_request_count(user_id): the request has passed the
\* limit check
AnonymousIncrement(r) ==
    /\ pc[r] = "counted"
    /\ \E upsert_ok \in BOOLEAN :
         unauthorized_request_counts' =
             IncrementUnauthorizedRequestCount(unauthorized_request_counts,
                                               upsert_ok)
    /\ limit_log' = [limit_log EXCEPT !.passed = @ + 1]
    /\ pc' = [pc EXCEPT ![r] = "admitted"]
    /\ UNCHANGED <<config, conversation_memory, chat_history, clock, memory, last,
                 context_messages, memory_stats, token_estimate, request_count>>

\* memory = MemoryManager(user_id, session_id) of an admitted request
AnonymousBegin(r) ==
    /\ pc[r] = "admitted"
    /\ pc' = [pc EXCEPT ![r] = "loaded"]
    /\ memory' = [memory EXCEPT ![r] = FixedKLoadFromDb(conversation_memory)]
    /\ UNCHANGED <<config, conversation_memory, chat_history, clock, last,
                 context_messages, memory_stats, token_estimate,
                 rate_limit_vars>>

\* memory.add_interaction(memory_query, full_answer): reason is False for
\* an anonymous request
AnonymousAddInteraction(r) ==
    /\ pc[r] = "completed"
    /\ clock < MaxAdds
    /\ \E g \in {x \in GenerationResults : ~x.has_full},
          llm \in LLMOutcomes, insert_ok \in BOOLEAN :
         FixedKCallAddInteraction(r, g, llm, insert_ok)

----------------------------------------------------------------------------
(* Initial states *)

\* the interactions of a row written before token tracking, oldest first
LegacyBuffer(n) == [i \in 1..n |-> LegacyInteraction("q", "a", i - n)]

\* rows the session may have when the first request arrives: none, the row
\* new_session inserts (both columns NULL), or a row saved by the manager
\* without token tracking
InitialRows ==
    {NoRow, [NoRow EXCEPT !.present = TRUE]}
    \cup {[present |-> TRUE,
           summary_json |-> IF n = 1 THEN NullSummary
                            ELSE [kind |-> "summary", upto |-> -n],
           history_buffer |-> JsonDumps(LegacyBuffer(n))] : n \in 1..MaxLegacy}

\* the transcript rows of the interactions of such a row
InitialTranscript(row) ==
    [i \in 1..Len(JsonLoads(row.history_buffer)) |->
        JsonLoads(row.history_buffer)[i]]

Init ==
    /\ config \in Configs
    /\ conversation_memory \in InitialRows
    /\ chat_history = InitialTranscript(conversation_memory)
    /\ clock = 0
    /\ pc = [r \in Requests |-> "idle"]
    /\ memory = [r \in Requests |-> EmptyManager]
    /\ last = [r \in Requests |-> NoCall]
    /\ context_messages = [r \in Requests |-> <<>>]
    /\ memory_stats = [r \in Requests |-> NoStats]
    /\ token_estimate = NoEstimate
    /\ unauthorized_request_counts = 0
    /\ request_count = [r \in Requests |-> 0]
    /\ limit_log = [begun |-> 0, passed |-> 0, refused |-> 0]

\* the steps of the request that worker r serves
RequestStep(r) ==
    \/ GetContext(r)
    \/ StreamCompleted(r)
    \/ StreamBlank(r)
    \/ ClientDisconnect(r)
    \/ StreamError(r)
    \/ AddInteraction(r)
    \/ SaveToDb(r)
    \/ SaveFails(r)
    \/ Finish(r)

\* one worker serving the requests of the session one after the other
Next ==
    \/ Begin("r1")
    \/ RequestStep("r1")

Spec == Init /\ [][Next]_vars

\* two requests of the session served at the same time, one by each worker
BeginOnce(r) == pc[r] = "idle" /\ Begin(r)

ConcurrentNext ==
    \E r \in Requests :
        \/ BeginOnce(r)
        \/ RequestStep(r)

ConcurrentSpec == Init /\ [][ConcurrentNext]_vars

\* a session that starts empty (no row, or the row new_session inserts) and
\* is served by default-mode requests, with or without an image, whose
\* streams complete, one after the other
EmptySessionInit == Init /\ conversation_memory.history_buffer.is_null

EmptySessionNext ==
    \/ Begin("r1")
    \/ GetContext("r1")
    \/ VisionMessages("r1")
    \/ StreamCompleted("r1")
    \/ AddCostedInteraction("r1")
    \/ SaveToDb("r1")
    \/ Finish("r1")

EmptySessionSpec == EmptySessionInit /\ [][EmptySessionNext]_vars

\* a session that starts empty and is served by default-mode requests
\* whose answers cost at least one token, with a summarizer that returns a
\* summary every time
ReliableSessionNext ==
    \/ Begin("r1")
    \/ GetContext("r1")
    \/ StreamCompleted("r1")
    \/ AddSummarizedInteraction("r1")
    \/ SaveToDb("r1")
    \/ Finish("r1")

ReliableSessionSpec == EmptySessionInit /\ [][ReliableSessionNext]_vars

\* a session that starts empty and is served by code-mode requests whose
\* streams complete, one after the other
CodeSessionNext ==
    \/ Begin("r1")
    \/ GetContext("r1")
    \/ StreamCompleted("r1")
    \/ AddCodeInteraction("r1")
    \/ ReportInvalidJson("r1")
    \/ DisconnectWhileReporting("r1")
    \/ SaveToDb("r1")
    \/ SaveFails("r1")
    \/ Finish("r1")

CodeSessionSpec == EmptySessionInit /\ [][CodeSessionNext]_vars

\* requests served with the compatibility class MemoryManager of the
\* token-aware module as their manager, one after the other
WrapperNext ==
    \/ Begin("r1")
    \/ GetContext("r1")
    \/ StreamCompleted("r1")
    \/ LegacyAddInteraction("r1")
    \/ SaveToDb("r1")
    \/ Finish("r1")

WrapperSpec == Init /\ [][WrapperNext]_vars

\* the session served by the current routes/chat.py with the fixed-K
\* manager, one request after the other
FixedKInit ==
    /\ config \in FixedKConfigs
    /\ conversation_memory \in InitialRows
    /\ chat_history = InitialTranscript(conversation_memory)
    /\ clock = 0
    /\ pc = [r \in Requests |-> "idle"]
    /\ memory = [r \in Requests |-> EmptyManager]
    /\ last = [r \in Requests |-> NoCall]
    /\ context_messages = [r \in Requests |-> <<>>]
    /\ memory_stats = [r \in Requests |-> NoStats]
    /\ token_estimate = NoEstimate
    /\ unauthorized_request_counts = 0
    /\ request_count = [r \in Requests |-> 0]
    /\ limit_log = [begun |-> 0, passed |-> 0, refused |-> 0]

FixedKNext ==
    \/ FixedKBegin("r1")
    \/ GetContext("r1")
    \/ StreamCompleted("r1")
    \/ StreamBlank("r1")
    \/ ClientDisconnect("r1")
    \/ StreamError("r1")
    \/ FixedKAddInteraction("r1")
    \/ SaveToDb("r1")
    \/ SaveFails("r1")
    \/ FixedKDone("r1")

FixedKSpec == FixedKInit /\ [][FixedKNext]_vars

\* anonymous requests for one new session_id, served concurrently by the
\* workers
AnonymousInit ==
    /\ config \in FixedKConfigs
    /\ conversation_memory = NoRow
    /\ chat_history = <<>>
    /\ clock = 0
    /\ pc = [r \in Requests |-> "idle"]
    /\ memory = [r \in Requests |-> EmptyManager]
    /\ last = [r \in Requests |-> NoCall]
    /\ context_messages = [r \in Requests |-> <<>>]
    /\ memory_stats = [r \in Requests |-> NoStats]
    /\ token_estimate = NoEstimate
    /\ unauthorized_request_counts = 0
    /\ request_count = [r \in Requests |-> 0]
    /\ limit_log = [begun |-> 0, passed |-> 0, refused |-> 0]

AnonymousNext ==
    \E r \in Requests :
        \/ AnonymousCheck(r)
        \/ AnonymousIncrement(r)
        \/ AnonymousBegin(r)
        \/ GetContext(r)
        \/ StreamCompleted(r)
        \/ StreamBlank(r)
        \/ AnonymousAddInteraction(r)
        \/ SaveToDb(r)
        \/ FixedKDone(r)

AnonymousSpec == AnonymousInit /\ [][AnonymousNext]_vars

\* calls of count_tokens, one after the other
EstimatorNext == CallCountTokens

EstimatorSpec == Init /\ [][EstimatorNext]_vars

----------------------------------------------------------------------------
(* Properties *)

\* the request of worker r called add_interaction and the call ran the
\* summarizer, whose LLM call raised or returned text that is not JSON
SummarizerFailed(r) ==
    last[r].summarized /\ last[r].llm \in {"raise", "unparsable"}

\* the request of worker r called add_interaction and the LLM output was
\* installed as the new summary
SummarizerSucceeded(r) ==
    last[r].summarized /\ last[r].llm \in {"ok", "no_schema"}

\* C1: when the summarizer fails during the prune of add_interaction,
\* summary, history_buffer and token_buffer are afterwards what they were
\* just before the prune, whether or not a summary existed before.
C1_FailureNoOp ==
    \A r \in Requests :
        SummarizerFailed(r) => memory[r] = last[r].before

\* token_count of a buffered interaction, a missing one counted as 0
TokenCountOf(interaction) == DictGet(interaction, "token_count", 0)

RECURSIVE SumTokenCounts(_)
SumTokenCounts(buffer) ==
    IF buffer = <<>> THEN 0
    ELSE TokenCountOf(Head(buffer)) + SumTokenCounts(Tail(buffer))

\* C2: in every state reached by load, add_interaction and prune,
\* token_buffer is as long as history_buffer, token_buffer[i] is the
\* token_count of history_buffer[i] (0 when it has none), and the sums agree.
C2_BuffersParallel ==
    \A r \in Requests :
        /\ Len(memory[r].token_buffer) = Len(memory[r].history_buffer)
        /\ \A i \in 1..Len(memory[r].history_buffer) :
             memory[r].token_buffer[i] = TokenCountOf(memory[r].history_buffer[i])
        /\ SumSeq(memory[r].token_buffer) = SumTokenCounts(memory[r].history_buffer)

\* a prune has cut a buffer that was loaded from a row without token counts
\* and extended by add_interaction, and kept entries of both kinds
C2_Witness ==
    \E r \in Requests :
        /\ last[r].summarized
        /\ Len(memory[r].history_buffer) < Len(last[r].before.history_buffer)
        /\ Len(memory[r].history_buffer) >= 2
        /\ "token_count" \notin DOMAIN memory[r].history_buffer[1]
        /\ SumSeq(memory[r].token_buffer) > 0

\* the transcript rows written by add_interaction calls of this run
NewRows == SelectSeq(chat_history, LAMBDA row : row.timestamp > 0)

\* the transcript holds a row of that timestamp
InTranscript(timestamp) ==
    \E i \in 1..Len(chat_history) : chat_history[i].timestamp = timestamp

\* C3: the transcript holds exactly one row per add_interaction call, in
\* call order, whatever the summarizer and save did; so every interaction in
\* a history_buffer is in the transcript.
C3_TranscriptComplete ==
    /\ Len(NewRows) = clock
    /\ \A i \in 1..Len(NewRows) : NewRows[i].timestamp = i
    /\ \A r \in Requests : \A i \in 1..Len(memory[r].history_buffer) :
         InTranscript(memory[r].history_buffer[i].timestamp)

\* C4: when add_interaction brings the buffer to max_interactions_limit
\* (and at least min_interactions_before_summary), compression is triggered
\* and the call completes normally with the prune carried out, also when
\* every token count is 0.
C4_HardCapAlwaysPrunes ==
    \A r \in Requests :
        ( /\ last[r].called
          /\ Len(last[r].before.history_buffer) >= config.max_interactions
          /\ Len(last[r].before.history_buffer) >= config.min_interactions )
        => (last[r].triggered /\ ~last[r].raised /\ last[r].summarized)

\* the buffer of the persisted row
PersistedBuffer ==
    IF conversation_memory.present /\ ~conversation_memory.history_buffer.is_null
    THEN JsonLoads(conversation_memory.history_buffer)
    ELSE <<>>

\* the buffer holds an interaction of that timestamp
InBuffer(timestamp, buffer) ==
    \E i \in 1..Len(buffer) : buffer[i].timestamp = timestamp

\* the request of worker r has appended its interaction and saved
AddedAndSaved(r) == last[r].called /\ pc[r] \in {"saved", "done"}

\* neither of the two requests had the other's interaction in its buffer:
\* both worked on a buffer loaded before the other one saved
LoadedWithoutEachOther(r, q) ==
    /\ ~InBuffer(last[q].interaction.timestamp, last[r].before.history_buffer)
    /\ ~InBuffer(last[r].interaction.timestamp, last[q].before.history_buffer)

\* the persisted row is what worker r holds in memory
RowIsMemoryOf(r) ==
    /\ conversation_memory.present
    /\ ~conversation_memory.history_buffer.is_null
    /\ conversation_memory.summary_json = memory[r].summary_json
    /\ PersistedBuffer = memory[r].history_buffer

\* C5: two concurrent requests of one session that both load the same
\* persisted buffer, append and save leave the row of the one that saved
\* last: the persisted buffer never holds both new interactions.
C5_LostUpdate ==
    \A r, q \in Requests :
        ( /\ r /= q
          /\ AddedAndSaved(r)
          /\ AddedAndSaved(q)
          /\ LoadedWithoutEachOther(r, q) )
        => /\ RowIsMemoryOf(r) \/ RowIsMemoryOf(q)
           /\ ~( /\ InBuffer(last[r].interaction.timestamp, PersistedBuffer)
                 /\ InBuffer(last[q].interaction.timestamp, PersistedBuffer) )

\* both requests saved; the row holds the interaction of one and not that of
\* the other, which its own manager still holds and the transcript has too
C5_Witness ==
    \E r, q \in Requests :
        /\ r /= q
        /\ AddedAndSaved(r)
        /\ AddedAndSaved(q)
        /\ LoadedWithoutEachOther(r, q)
        /\ InBuffer(last[q].interaction.timestamp, PersistedBuffer)
        /\ ~InBuffer(last[r].interaction.timestamp, PersistedBuffer)
        /\ InBuffer(last[r].interaction.timestamp, memory[r].history_buffer)
        /\ InTranscript(last[r].interaction.timestamp)
        /\ InTranscript(last[q].interaction.timestamp)

\* C6: under every interleaving of two concurrent requests of one session
\* whose generations both completed, the transcript ends up holding both
\* interactions.
C6_TranscriptHoldsBoth ==
    \A r, q \in Requests :
        (r /= q /\ last[r].called /\ last[q].called)
        => /\ InTranscript(last[r].interaction.timestamp)
           /\ InTranscript(last[q].interaction.timestamp)

\* C7: a request whose stream ends by client disconnect or by a streaming
\* error calls neither add_interaction nor save_to_db: the step that ends the
\* stream and every later step of that request leave the manager, the
\* persisted row and the transcript as they are, and add_interaction is only
\* ever called by a request whose generation completed.
C7_CancellationSafety ==
    [][\A r \in Requests :
         /\ (pc[r] = "streaming" /\ pc'[r] \in {"disconnected", "errored"})
            => /\ memory' = memory
               /\ conversation_memory' = conversation_memory
               /\ chat_history' = chat_history
               /\ ~last'[r].called
         /\ (pc[r] \in {"disconnected", "errored"} /\ pc'[r] /= pc[r])
            => pc'[r] = "loaded"
         /\ (memory'[r].history_buffer /= memory[r].history_buffer
             /\ pc'[r] /= "loaded")
            => pc[r] = "completed"
         /\ (last'[r].called /\ ~last[r].called) => pc[r] = "completed"
      ]_vars

\* a request of a session with a saved row and a transcript was cut off, and
\* its manager still holds what it loaded
C7_Witness ==
    \E r \in Requests :
        /\ pc[r] = "disconnected"
        /\ ~last[r].called
        /\ PersistedBuffer /= <<>>
        /\ clock > 0
        /\ chat_history /= <<>>
        /\ memory[r] = LoadFromDb(conversation_memory)

\* C8: every prune splits the buffer without loss: to_summarize followed by
\* retained is the buffer before the prune, and the token slices likewise.
C8_SplitLosesNothing ==
    \A r \in Requests :
        last[r].summarized =>
            /\ last[r].split.to_summarize \o last[r].split.retained
                 = last[r].before.history_buffer
            /\ last[r].split.to_summarize_tokens \o last[r].split.retained_tokens
                 = last[r].before.token_buffer
            /\ Len(last[r].split.to_summarize) + Len(last[r].split.retained)
                 = Len(last[r].before.history_buffer)

\* a prune took the standard branch and kept the last dynamic_k interactions
C8_Witness ==
    \E r \in Requests :
        /\ last[r].summarized
        /\ Len(last[r].before.history_buffer) > last[r].dynamic_k
        /\ Len(last[r].split.retained) = last[r].dynamic_k
        /\ Len(last[r].split.to_summarize) >= 2

\* C9: after a successful prune the buffer is strictly shorter than before
\* it, in both branches of the split.
C9_PruneProgress ==
    \A r \in Requests :
        (SummarizerSucceeded(r) /\ last[r].before.history_buffer /= <<>>)
        => Len(memory[r].history_buffer) < Len(last[r].before.history_buffer)

\* a successful prune of a buffer within dynamic_k summarized its older half
C9_Witness ==
    \E r \in Requests :
        /\ SummarizerSucceeded(r)
        /\ Len(last[r].before.history_buffer) <= last[r].dynamic_k
        /\ Len(last[r].before.history_buffer) >= 3
        /\ Len(memory[r].history_buffer) < Len(last[r].before.history_buffer)

\* C10: the trigger is true exactly when the buffer has at least
\* min_interactions_before_summary interactions and its token sum reaches
\* adaptive_threshold or its length reaches max_interactions_limit.
C10_TriggerPredicate ==
    \A r \in Requests :
        last[r].called =>
            ( last[r].triggered
              <=> /\ Len(last[r].before.history_buffer) >= config.min_interactions
                  /\ \/ SumSeq(last[r].before.token_buffer) * SafetyDen
                          >= config.tok_K * SafetyNum
                     \/ Len(last[r].before.history_buffer)
                          >= config.max_interactions )

\* a buffer shorter than the minimum did not trigger although its token sum
\* had reached the threshold
C10_Witness ==
    \E r \in Requests :
        /\ last[r].called
        /\ ~last[r].triggered
        /\ Len(last[r].before.history_buffer) < config.min_interactions
        /\ SumSeq(last[r].before.token_buffer) * SafetyDen
             >= config.tok_K * SafetyNum

\* the token counts an interaction of the model may have
TokenCounts == {g.token_count : g \in GenerationResults} \cup TokenCosts \cup {0}

\* the token buffers made from token_buffer by raising one entry by a token
\* count: same length, token sum at least as large
RaisedTokenBuffers(token_buffer) ==
    {[token_buffer EXCEPT ![i] = @ + d] :
        i \in 1..Len(token_buffer), d \in TokenCounts}

\* C11: for the configuration of the run and a buffer of at least
\* min_interactions_before_summary interactions on which the trigger is
\* true, the trigger is true on every buffer of the same length whose token
\* sum is at least as large.
C11_TriggerMonotone ==
    \A r \in Requests :
        ( /\ last[r].called
          /\ Len(last[r].before.history_buffer) >= config.min_interactions
          /\ ShouldTriggerSummarization(last[r].before, config) )
        => \A token_buffer \in RaisedTokenBuffers(last[r].before.token_buffer) :
             /\ SumSeq(token_buffer) >= SumSeq(last[r].before.token_buffer)
             /\ ShouldTriggerSummarization(
                    [last[r].before EXCEPT !.token_buffer = token_buffer], config)

\* add_interaction triggered on the token sum alone, the buffer being shorter
\* than max_interactions_limit, and a buffer with a larger sum exists
C11_Witness ==
    \E r \in Requests :
        /\ last[r].called
        /\ last[r].triggered
        /\ Len(last[r].before.history_buffer) >= config.min_interactions
        /\ Len(last[r].before.history_buffer) < config.max_interactions
        /\ \E token_buffer \in RaisedTokenBuffers(last[r].before.token_buffer) :
             SumSeq(token_buffer) > SumSeq(last[r].before.token_buffer)

\* the weighted mean of token_buffer as the fraction num / den, the i-th
\* oldest of n entries (i from 0) weighing smoothing_factor ^ (n - 1 - i);
\* both scaled by SmoothingDen ^ (n - 1)
RECURSIVE MeanNum(_, _)
MeanNum(token_buffer, i) ==
    IF i >= Len(token_buffer) THEN 0
    ELSE token_buffer[i + 1]
           * Pow(SmoothingNum, Len(token_buffer) - 1 - i) * Pow(SmoothingDen, i)
         + MeanNum(token_buffer, i + 1)

RECURSIVE MeanDen(_, _)
MeanDen(n, i) ==
    IF i >= n THEN 0
    ELSE Pow(SmoothingNum, n - 1 - i) * Pow(SmoothingDen, i) + MeanDen(n, i + 1)

\* clamp(x, lo, hi)
Clamp(x, lo, hi) == IF x < lo THEN lo ELSE IF x > hi THEN hi ELSE x

\* C12: _calculate_dynamic_threshold returns
\* min_interactions_before_summary for an empty token_buffer and otherwise
\* clamp(max(1, floor(adaptive_threshold / avg)), min_interactions_before_summary,
\* max_interactions_limit), avg being the weighted mean of token_buffer with
\* weight smoothing_factor ^ (n - 1 - i); the result lies between the two
\* limits.
C12_DynamicRetention ==
    \A r \in Requests :
        LET token_buffer == memory[r].token_buffer
            res == CalculateDynamicThreshold(token_buffer, config)
            num == MeanNum(token_buffer, 0)
            den == MeanDen(Len(token_buffer), 0)
        IN /\ ~res.raised
           /\ res.value >= config.min_interactions
           /\ res.value <= config.max_interactions
           /\ token_buffer = <<>> => res.value = config.min_interactions
           /\ token_buffer /= <<>> =>
                /\ num > 0
                /\ res.value =
                     Clamp(Max(1, (config.tok_K * SafetyNum * den)
                                     \div (SafetyDen * num)),
                           config.min_interactions, config.max_interactions)

\* C13: a prune of a buffer of n interactions sends exactly the oldest
\* max(1, n // 2) to the summarizer and retains the rest when n <= dynamic_k,
\* and otherwise sends exactly the oldest n - dynamic_k and retains exactly
\* the most recent dynamic_k.
C13_SplitPolicy ==
    \A r \in Requests :
        last[r].summarized =>
            LET buffer == last[r].before.history_buffer
                n == Len(buffer)
                dynamic_k == last[r].dynamic_k
                sent == IF n <= dynamic_k
                        THEN (IF n \div 2 >= 1 THEN n \div 2 ELSE 1)
                        ELSE n - dynamic_k
            IN /\ last[r].split.to_summarize = SubSeq(buffer, 1, sent)
               /\ last[r].split.retained = SubSeq(buffer, sent + 1, n)
               /\ n > dynamic_k => Len(last[r].split.retained) = dynamic_k

\* a prune of a buffer of one interaction sent it to the summarizer and
\* retained nothing
C13_Witness ==
    \E r \in Requests :
        /\ last[r].summarized
        /\ Len(last[r].before.history_buffer) = 1
        /\ last[r].dynamic_k = 1
        /\ last[r].split.to_summarize = last[r].before.history_buffer
        /\ last[r].split.retained = <<>>

\* C14: in the state add_interaction leaves behind when its prune succeeded,
\* the token sum of the retained buffer is below adaptive_threshold.
C14_UnderBudgetAfterPrune ==
    \A r \in Requests :
        SummarizerSucceeded(r) =>
            SumSeq(memory[r].token_buffer) * SafetyDen < config.tok_K * SafetyNum

\* the n-th add_interaction call of a session that started empty, every
\* answer so far costing `cost` tokens and no summary written yet
NthAddOfCost(r, n, cost) ==
    /\ last[r].called
    /\ last[r].interaction.timestamp = n
    /\ last[r].before.summary_json = NullSummary
    /\ last[r].before.token_buffer = [i \in 1..n |-> cost]

\* C15: with max_context_tokens = 100 and safety_margin = 0.9 (threshold
\* 90), min = 2 and max = 50, from an empty session, interactions of 40, 40
\* and 40 tokens cause no summarizer call at the first and second add and
\* exactly one at the third, with dynamic_k = 2, the first interaction alone
\* sent to the summarizer and the last two retained.
C15_Scenario404040 ==
    \A r \in Requests :
        config = [tok_K |-> 100, min_interactions |-> 2, max_interactions |-> 50]
        => /\ \A n \in 1..2 :
                NthAddOfCost(r, n, 40) =>
                    /\ ~last[r].triggered
                    /\ ~last[r].summarized
                    /\ memory[r] = last[r].before
           /\ NthAddOfCost(r, 3, 40) =>
                /\ last[r].triggered
                /\ last[r].summarized
                /\ last[r].dynamic_k = 2
                /\ last[r].split.to_summarize
                     = <<last[r].before.history_buffer[1]>>
                /\ last[r].split.retained
                     = <<last[r].before.history_buffer[2],
                         last[r].before.history_buffer[3]>>

\* the third add of 40 tokens has pruned with a summary of the first
\* interaction, and the manager holds the last two
C15_Witness ==
    \E r \in Requests :
        /\ config = [tok_K |-> 100, min_interactions |-> 2, max_interactions |-> 50]
        /\ NthAddOfCost(r, 3, 40)
        /\ last[r].llm = "ok"
        /\ memory[r].summary_json = [kind |-> "summary", upto |-> 1]
        /\ memory[r].token_buffer = <<40, 40>>

\* C16: with max_interactions_limit = 3 and min_interactions_before_summary
\* = 2, from an empty session, interactions of 1, 1 and 1 tokens do not
\* trigger compression at the first and second add, and the third add
\* triggers it through the interaction-count cap although the token sum, 3,
\* is below adaptive_threshold.
C16_ScenarioCap ==
    \A r \in Requests :
        (config.max_interactions = 3 /\ config.min_interactions = 2)
        => /\ \A n \in 1..2 : NthAddOfCost(r, n, 1) => ~last[r].triggered
           /\ NthAddOfCost(r, 3, 1) =>
                /\ last[r].triggered
                /\ Len(last[r].before.history_buffer) >= config.max_interactions
                /\ SumSeq(last[r].before.token_buffer) = 3
                /\ 3 * SafetyDen < config.tok_K * SafetyNum

\* the third add of 1 token has triggered and the prune ran
C16_Witness ==
    \E r \in Requests :
        /\ config.max_interactions = 3
        /\ config.min_interactions = 2
        /\ NthAddOfCost(r, 3, 1)
        /\ last[r].triggered
        /\ last[r].summarized
        /\ Len(memory[r].history_buffer) < 3

\* the roles and contents the interactions of a buffer contribute, from the
\* i-th interaction on
RECURSIVE TurnsFrom(_, _)
TurnsFrom(buffer, i) ==
    IF i > Len(buffer) THEN <<>>
    ELSE LET user == IF buffer[i].prompt = "" THEN <<>>
                     ELSE <<[role |-> "user", content |-> buffer[i].prompt]>>
             assistant == IF buffer[i].response = "" THEN <<>>
                          ELSE <<[role |-> "assistant", content |-> buffer[i].response]>>
         IN user \o assistant \o TurnsFrom(buffer, i + 1)

\* the request of worker r ended in get_context, before any add_interaction
GetContextRaised(r) == pc[r] = "failed" /\ ~last[r].called

\* C17: get_context returns one system message iff the summary is present
\* and parses to a summary (none otherwise), followed, for each interaction
\* of history_buffer in order, by a user message if the prompt is non-empty
\* and an assistant message if the response is non-empty; with an empty
\* buffer and a valid summary it returns exactly one message, of role system.
C17_ContextOrdering ==
    \A r \in Requests :
        /\ ~GetContextRaised(r)
        /\ pc[r] = "streaming" =>
             LET messages == context_messages[r]
                 has_system == memory[r].summary_json.kind = "summary"
             IN /\ has_system =>
                     /\ messages /= <<>>
                     /\ messages[1].role = "system"
                     /\ Tail(messages) = TurnsFrom(memory[r].history_buffer, 1)
                /\ ~has_system =>
                     messages = TurnsFrom(memory[r].history_buffer, 1)
                /\ (has_system /\ memory[r].history_buffer = <<>>) =>
                     Len(messages) = 1

\* C18: get_context leaves summary, history_buffer, token_buffer, the
\* persisted row and the transcript unchanged, and a second call right after
\* it returns the same messages.
C18_GetContextFrame ==
    [][\A r \in Requests :
         (pc[r] = "loaded" /\ pc'[r] /= "loaded") =>
             /\ memory' = memory
             /\ conversation_memory' = conversation_memory
             /\ chat_history' = chat_history
             /\ pc'[r] = "streaming" =>
                  /\ ~ContextMessages(memory'[r]).raised
                  /\ ContextMessages(memory'[r]).messages = context_messages'[r]
      ]_vars

\* get_context has returned a summary and turns, one of them without an
\* assistant message, and the manager is still what was loaded
C18_Witness ==
    \E r \in Requests :
        /\ pc[r] = "streaming"
        /\ Len(context_messages[r]) >= 3
        /\ context_messages[r][1].role = "system"
        /\ \E i \in 1..Len(memory[r].history_buffer) :
             memory[r].history_buffer[i].response = ""
        /\ memory[r] = LoadFromDb(conversation_memory)

\* the manager a fresh construction loads after save_to_db of manager m
SavedAndReloaded(m) == LoadFromDb(SavedRow(m))

C20_AddDoesNotPersist ==
    [][/\ \A r \in Requests :
            (last'[r].called /\ last'[r] /= last[r]) =>
                conversation_memory' = conversation_memory
       /\ conversation_memory' /= conversation_memory =>
            \E r \in Requests :
                /\ pc[r] = "added"
                /\ pc'[r] = "saved"
                /\ conversation_memory'.summary_json = memory[r].summary_json
                /\ conversation_memory'.history_buffer.items = memory[r].history_buffer
      ]_vars

\* add_interaction has pruned and installed a new summary, nothing is saved
\* yet, and the row still holds the summary and the buffer that were loaded
C20_Witness ==
    \E r \in Requests :
        /\ pc[r] = "added"
        /\ SummarizerSucceeded(r)
        /\ conversation_memory.present
        /\ conversation_memory.summary_json = last[r].before.summary_json
        /\ conversation_memory.summary_json /= memory[r].summary_json
        /\ PersistedBuffer \o <<last[r].interaction>> = last[r].before.history_buffer
        /\ PersistedBuffer /= memory[r].history_buffer

\* the step is an add_interaction of worker r that leaves fewer interactions
\* in history_buffer than it appended to
BufferTruncatedBy(r) ==
    /\ pc[r] = "completed" /\ last'[r].called
    /\ Len(memory'[r].history_buffer) < Len(last'[r].before.history_buffer)

\* the step is an add_interaction of worker r whose summarizer call produced
\* a summary, and that summary replaces the one the manager held
SummaryReplacedBy(r) ==
    /\ pc[r] = "completed" /\ last'[r].called
    /\ last'[r].summarized /\ last'[r].llm \notin {"raise", "unparsable"}
    /\ memory'[r].summary_json /= memory[r].summary_json

\* C21: in every step the buffer is truncated if and only if the summary is
\* replaced in that step by a summary a successful summarization produced,
\* and every write of the persisted row stores the (summary, history_buffer)
\* pair one manager holds, a failing save_to_db writing nothing.
C21_PruneAtomic ==
    [][/\ \A r \in Requests : BufferTruncatedBy(r) <=> SummaryReplacedBy(r)
       /\ conversation_memory' /= conversation_memory =>
            \E r \in Requests : /\ memory'[r] = memory[r]
                                /\ conversation_memory' = SavedRow(memory[r])]_vars

\* the stored summary worker r loaded is JSON text that is not a summary
\* object: an object whose fields have the wrong types, or no object at all
MalformedSummaryLoaded(r) ==
    /\ pc[r] \notin {"idle", "loaded"} /\ ~last[r].called
    /\ memory[r].summary_json.kind \in {"json", "not_object"}

\* C22: for a stored summary that is not a well-formed summary object,
\* get_context returns normally, with no system message and with the user and
\* assistant messages of the buffer.
C22_MalformedSummaryTolerated ==
    \A r \in Requests :
        MalformedSummaryLoaded(r) =>
            /\ pc[r] /= "failed"
            /\ context_messages[r] = TurnsFrom(memory[r].history_buffer, 1)

\* the add_interaction of worker r ended with an exception that left
\* Summarizer.summarize (dynamic_k had been computed)
SummarizeRaised(r) == last[r].raised /\ last[r].dynamic_k > 0

\* C23: Summarizer.summarize never raises to _adaptive_prune, and when its
\* LLM call fails or returns text that is not JSON the caller keeps summary,
\* history_buffer and token_buffer as they were, whether the previous summary
\* is null or not.
C23_SummarizeFailureSignal ==
    \A r \in Requests :
        last[r].called =>
            /\ ~SummarizeRaised(r)
            /\ SummarizerFailed(r) => memory[r] = last[r].before

\* C24: the summary a manager holds is null or conforms to the summary
\* schema, and a summarizer output that is JSON but does not conform leaves
\* summary, history_buffer and token_buffer as they were before the prune.
C24_SchemaEnforced ==
    \A r \in Requests :
        /\ memory[r].summary_json.kind \in {"null", "summary"}
        /\ (last[r].summarized /\ last[r].llm \in {"no_schema", "not_object"}) =>
               memory[r] = last[r].before

\* the add_interaction that follows the one of worker r: the next request
\* loads what save_to_db stored and adds an interaction of the given token
\* count, its summarizer call succeeding
NextAddAfter(r, token_count) ==
    AddToMemory(LoadFromDb(SavedRow(memory[r])), config,
                Interaction("q", "a", clock + 1, token_count), "ok")

\* C25: after an add_interaction whose prune failed in the summarizer, the
\* next add_interaction on the state it left evaluates the trigger to true
\* and calls the summarizer again, and with the summarizer succeeding the
\* buffer is compressed.
C25_FailedCompressionRetried ==
    \A r \in Requests :
        SummarizerFailed(r) =>
            \A token_count \in TokenCounts :
                LET next == NextAddAfter(r, token_count) IN
                /\ next.triggered
                /\ next.summarized
                /\ Len(next.memory.history_buffer) < Len(next.before.history_buffer)

\* C26: a request whose generation completed with a non-empty answer calls
\* add_interaction once, then save_to_db once, and only then emits 'done':
\* from the completed stream the request goes to a returned add_interaction,
\* from there to save_to_db, the record of the add_interaction call is not
\* written again, and 'done' follows a save of what the manager holds.
C26_OrchestratorProtocol ==
    [][\A r \in Requests :
         /\ (pc[r] = "completed" /\ pc'[r] /= pc[r]) =>
                last'[r].called /\ pc'[r] \in {"reporting", "added"}
         /\ (pc[r] = "reporting" /\ pc'[r] /= pc[r]) => pc'[r] = "added"
         /\ (pc[r] = "added" /\ pc'[r] /= pc[r]) =>
                \/ pc'[r] = "saved" /\ conversation_memory' = SavedRow(memory[r])
                \/ pc'[r] = "failed" /\ conversation_memory' = conversation_memory
         /\ (last[r].called /\ pc'[r] /= "loaded") => last'[r] = last[r]
         /\ (last[r].called /\ pc'[r] = "done" /\ pc[r] /= "done") =>
                pc[r] = "saved"]_vars

\* C27: get_memory_stats changes none of summary, history_buffer,
\* token_buffer, persisted row and transcript, and the dynamic_k it reports is
\* what _calculate_dynamic_threshold returns for the token_buffer of that
\* moment, min_interactions when the buffer is empty.
C27_StatsReadOnly ==
    [][\A r \in Requests :
         (pc[r] = "saved" /\ pc'[r] /= pc[r]) =>
             /\ memory' = memory
             /\ conversation_memory' = conversation_memory
             /\ chat_history' = chat_history
             /\ memory_stats'[r].reported =>
                  memory_stats'[r].dynamic_k =
                      IF memory[r].token_buffer = <<>>
                      THEN config.min_interactions
                      ELSE CalculateDynamicThreshold(memory[r].token_buffer,
                                                     config).value]_vars

\* a request reported statistics of a non-empty buffer whose dynamic_k is not
\* min_interactions
C27_Witness ==
    \E r \in Requests :
        /\ pc[r] = "done"
        /\ memory_stats[r].reported
        /\ memory[r].token_buffer /= <<>>
        /\ memory_stats[r].dynamic_k /= config.min_interactions

\* the transcript row written at the given timestamp
RowAt(timestamp) ==
    CHOOSE row \in {chat_history[k] : k \in 1..Len(chat_history)} :
        row.timestamp = timestamp

\* C28: add_interaction appends the response argument to history_buffer in
\* every case, the transcript row records full_response_for_history when one
\* is supplied and the response otherwise, and both carry the same prompt,
\* timestamp and token count.
C28_BufferVersusTranscript ==
    \A r \in Requests :
        last[r].called =>
            LET buffer == last[r].before.history_buffer
                added == buffer[Len(buffer)]
            IN /\ added = last[r].interaction
               /\ \E g \in GenerationResults :
                    /\ added.response = g.response
                    /\ added.token_count = g.token_count
                    /\ last[r].logged =>
                         /\ InTranscript(added.timestamp)
                         /\ RowAt(added.timestamp).response =
                                (IF g.has_full THEN g.full ELSE g.response)
                         /\ RowAt(added.timestamp).prompt = added.prompt
                         /\ RowAt(added.timestamp).token_count = added.token_count

\* a reason-mode interaction whose transcript row holds the whole answer and
\* whose buffer entry holds the answer without its <think> part
C28_Witness ==
    \E r \in Requests :
        /\ last[r].called /\ last[r].logged
        /\ InTranscript(last[r].interaction.timestamp)
        /\ RowAt(last[r].interaction.timestamp).response = "<think>a"
        /\ last[r].interaction.response = "a"
        /\ InBuffer(last[r].interaction.timestamp, memory[r].history_buffer)

\* C29: a manager constructed for a session with no persisted row, or with a
\* row whose history_buffer is null, is empty (null summary, empty
\* history_buffer, empty token_buffer); for a persisted buffer,
\* token_buffer[i] is the stored token_count of entry i, or 0 when the entry
\* has none.
C29_Loading ==
    \A r \in Requests :
        pc[r] = "loaded" =>
            IF ~conversation_memory.present
               \/ conversation_memory.history_buffer.is_null
            THEN memory[r] = EmptyManager
            ELSE LET stored == conversation_memory.history_buffer.items IN
                 /\ Len(memory[r].history_buffer) = Len(stored)
                 /\ Len(memory[r].token_buffer) = Len(stored)
                 /\ \A i \in 1..Len(stored) :
                      memory[r].token_buffer[i] =
                          IF "token_count" \in DOMAIN stored[i]
                          THEN stored[i].token_count
                          ELSE 0

\* a manager loaded from a row that holds an entry written without
\* token_count and an entry with a positive one
C29_Witness ==
    \E r \in Requests :
        /\ pc[r] = "loaded"
        /\ conversation_memory.present
        /\ ~conversation_memory.history_buffer.is_null
        /\ \E i, j \in 1..Len(memory[r].history_buffer) :
             /\ "token_count" \notin DOMAIN conversation_memory.history_buffer.items[i]
             /\ "token_count" \in DOMAIN conversation_memory.history_buffer.items[j]
             /\ memory[r].token_buffer[j] > 0

\* s is what remains of t after dropping some of its first elements
IsSuffix(s, t) ==
    /\ Len(s) <= Len(t)
    /\ s = SubSeq(t, Len(t) - Len(s) + 1, Len(t))

\* C30: in every step of one manager instance history_buffer either stays as
\* it is or, in add_interaction, becomes a suffix of the old buffer followed
\* by the added interaction, interactions leaving only from the front and
\* only when the prune ran; nothing is reordered or edited.
C30_BufferIsSuffix ==
    [][\A r \in Requests :
         pc'[r] /= "loaded" =>
             IF pc[r] = "completed" /\ last'[r].called
             THEN /\ IsSuffix(memory'[r].history_buffer,
                              Append(memory[r].history_buffer,
                                     last'[r].interaction))
                  /\ Len(memory'[r].history_buffer) <= Len(memory[r].history_buffer)
                       => last'[r].triggered
             ELSE memory'[r].history_buffer = memory[r].history_buffer]_vars

\* a prune removed the oldest loaded interaction and kept a loaded one
\* followed by the added one
C30_Witness ==
    \E r \in Requests :
        /\ last[r].called /\ last[r].triggered
        /\ Len(memory[r].history_buffer) = 2
        /\ Len(last[r].before.history_buffer) = 3
        /\ memory[r].history_buffer[1].timestamp <= 0
        /\ memory[r].history_buffer[2] = last[r].interaction

\* C32: count_tokens never raises: it returns 0 for an empty or non-string
\* argument, max(1, len(text) // 4) when the tokenizer fails, and the number
\* of tokens of the encoding otherwise.
C32_EstimatorTotal ==
    token_estimate.called =>
        LET text == token_estimate.text
            tokenizer == token_estimate.tokenizer
            result == token_estimate.result
        IN /\ ~result.raised
           /\ (~text.is_str \/ text.length = 0) => result.value = 0
           /\ (text.is_str /\ text.length > 0 /\ tokenizer.raised) =>
                  result.value = Max(1, text.length \div 4)
           /\ (text.is_str /\ text.length > 0 /\ ~tokenizer.raised) =>
                  result.value = tokenizer.tokens

\* the tokenizer failed on a text of at least 8 characters and count_tokens
\* returned a quarter of its length
C32_Witness ==
    /\ token_estimate.called
    /\ token_estimate.text.is_str
    /\ token_estimate.text.length >= 8
    /\ token_estimate.tokenizer.raised
    /\ token_estimate.result.value = 2

\* C31: add_interaction(prompt, response, full_response_for_history) of the
\* compatibility class does what the core add_interaction does with
\* count_tokens(response, default model) as the token count: the same state
\* change, the same transcript write and the same prune decision.
C31_WrapperRefinesCore ==
    [][\A r \in Requests :
         (pc[r] = "completed" /\ pc'[r] /= pc[r]) =>
             /\ last'[r].called
             /\ last'[r].interaction.response = "" =>
                    last'[r].interaction.token_count = 0
             /\ last'[r].interaction.response /= "" =>
                    last'[r].interaction.token_count >= 1
             /\ \E llm \in LLMOutcomes :
                    LET core == AddToMemory(memory[r], config,
                                            last'[r].interaction, llm)
                    IN /\ memory'[r] = core.memory
                       /\ last'[r].triggered = core.triggered
             /\ chat_history' =
                    IF last'[r].logged
                    THEN Append(chat_history,
                                TranscriptRow(last'[r].interaction.prompt,
                                              last'[r].db_response,
                                              last'[r].interaction.timestamp,
                                              last'[r].interaction.token_count))
                    ELSE chat_history]_vars

\* C33: in every state a manager reaches through loading and add_interaction,
\* get_memory_stats returns without raising, also for a non-empty buffer
\* whose token counts are all 0; no request ends in an exception of
\* get_memory_stats.
C33_StatsNeverRaise ==
    \A r \in Requests :
        /\ pc[r] /= "idle" => ~GetMemoryStats(memory[r], config).raised
        /\ ~memory_stats[r].raised

\* C34: once the summary of the session is not null it never becomes null
\* again: not in the manager that holds it, whatever the summarizer does in
\* add_interaction, not in the persisted row, and not in the manager the next
\* request loads.
C34_SummaryStaysNonNull ==
    [][/\ \A r \in Requests :
            (Truthy(memory[r].summary_json) /\ pc'[r] /= "loaded") =>
                Truthy(memory'[r].summary_json)
       /\ Truthy(conversation_memory.summary_json) =>
            Truthy(conversation_memory'.summary_json)
       /\ \A r \in Requests :
            (Truthy(conversation_memory.summary_json)
             /\ pc'[r] = "loaded" /\ pc[r] /= "loaded") =>
                Truthy(memory'[r].summary_json)]_vars

\* a summarizer call failed on a session that had a summary, and the summary
\* is still there
C34_Witness ==
    \E r \in Requests :
        /\ SummarizerFailed(r)
        /\ Truthy(last[r].before.summary_json)
        /\ Truthy(memory[r].summary_json)
        /\ pc[r] = "done"
        /\ Truthy(conversation_memory.summary_json)

\* C35: with min_interactions at least 2, after every add_interaction (with
\* or without a prune, the summarizer succeeding or failing) the last element
\* of history_buffer is the interaction that call appended.
C35_NewestRetained ==
    \A r \in Requests :
        (last[r].called /\ config.min_interactions >= 2) =>
            /\ memory[r].history_buffer /= <<>>
            /\ memory[r].history_buffer[Len(memory[r].history_buffer)]
                   = last[r].interaction
            /\ memory[r].token_buffer[Len(memory[r].token_buffer)]
                   = last[r].interaction.token_count

\* the older-half branch summarized everything but the interaction just added
C35_Witness ==
    \E r \in Requests :
        /\ config.min_interactions >= 2
        /\ last[r].called /\ last[r].summarized /\ last[r].llm = "ok"
        /\ Len(last[r].before.history_buffer) <= last[r].dynamic_k
        /\ memory[r].history_buffer = <<last[r].interaction>>

\* C36: an add_interaction call evaluates the trigger once, on the buffer
\* with the new interaction, and calls the summarizer at most once: the
\* manager afterwards holds either that buffer or what one prune of it
\* retains, even when the retained buffer still satisfies the trigger.
C36_SinglePass ==
    \A r \in Requests :
        last[r].called =>
            /\ last[r].triggered
                   <=> ShouldTriggerSummarization(last[r].before, config)
            /\ last[r].summarized => last[r].triggered
            /\ \/ memory[r] = last[r].before
               \/ /\ last[r].summarized
                  /\ last[r].split = PruneSplit(last[r].before, last[r].dynamic_k)
                  /\ memory[r].history_buffer = last[r].split.retained
                  /\ memory[r].token_buffer = last[r].split.retained_tokens

\* a prune succeeded and the buffer it retained still satisfies the trigger
C36_Witness ==
    \E r \in Requests :
        /\ last[r].called /\ last[r].summarized /\ last[r].llm = "ok"
        /\ memory[r].history_buffer = last[r].split.retained
        /\ Len(memory[r].history_buffer) < Len(last[r].before.history_buffer)
        /\ ShouldTriggerSummarization(memory[r], config)

\* C37: on a session that starts empty, with answers of at least one token
\* and a summarizer that always succeeds, history_buffer holds fewer than
\* max_interactions interactions after every add_interaction.
C37_BoundedBuffer ==
    \A r \in Requests :
        last[r].called =>
            Len(memory[r].history_buffer) < config.max_interactions

\* the third interaction reached max_interactions = 3 and the prune brought
\* the buffer back under it
C37_Witness ==
    \E r \in Requests :
        /\ config.max_interactions = 3
        /\ last[r].called /\ last[r].summarized
        /\ Len(last[r].before.history_buffer) = 3
        /\ ~ReachesThreshold(SumSeq(last[r].before.token_buffer), config)
        /\ Len(memory[r].history_buffer) = 2

\* C38: the fixed-K manager prunes exactly when the buffer is longer than
\* SHORT_TERM_MEMORY_K after the append; interactions leave history_buffer
\* only when the summarizer succeeded on them, and then exactly the last K
\* remain; when the summarizer fails the buffer is kept whole.
C38_FixedKPrune ==
    \A r \in Requests :
        last[r].called =>
            LET k == config.SHORT_TERM_MEMORY_K
                before == last[r].before.history_buffer
                after == memory[r].history_buffer
            IN /\ last[r].triggered <=> Len(before) > k
               /\ after /= before =>
                    /\ last[r].summarized
                    /\ last[r].llm \notin {"raise", "unparsable"}
                    /\ after = SubSeq(before, Len(before) - k + 1, Len(before))
               /\ SummarizerFailed(r) => after = before

\* C39: for one unauthenticated session_id at most 2 chat requests ever pass
\* the limit check, under every interleaving of the requests; a request that
\* is answered 429 creates no memory manager and records no interaction.
C39_AnonymousLimit ==
    /\ limit_log.passed <= AnonymousLimit
    /\ \A r \in Requests :
           pc[r] = "refused" =>
               /\ memory[r] = EmptyManager
               /\ ~last[r].called

====
